---- MODULE Spec2Model ----
(***************************************************************************)
(* Model of app/main.py of dvdFilmBorrow: a FastAPI application with three *)
(* GET routes, "/", "/greet/{name}" and "/add/{number1}/{number2}".        *)
(*                                                                         *)
(* Text (path segments, messages) is a sequence of one-character strings,  *)
(* so that parsing and formatting are computed character by character.     *)
(* A request path is a literal first segment (prefix) followed by the      *)
(* remaining segments: "/" is prefix "" with no segments, "/greet/x" is    *)
(* prefix "greet" with the one segment <<"x">>, "/add//9" is prefix "add"  *)
(* with the segments <<>> and <<"9">>.                                     *)
(***************************************************************************)
EXTENDS Integers, Sequences, FiniteSets, TLC

VARIABLES pc, request, route, path_params, kwargs, response, called

vars == <<pc, request, route, path_params, kwargs, response, called>>

(* ------------------------------ bounds ------------------------------- *)

\* longest path segment a request carries
MaxLen == 2

\* number of requests in flight at once
MaxTasks == 2

Tasks == 1..MaxTasks

(* ------------------------------- text -------------------------------- *)

\* the characters path segments are drawn from: two digits, the two signs
\* and a letter
Alphabet == {"0", "9", "-", "+", "x"}

Digits == <<"0", "1", "2", "3", "4", "5", "6", "7", "8", "9">>

IsDigit(c) == \E i \in 1..10 : Digits[i] = c

DigitVal(c) == (CHOOSE i \in 1..10 : Digits[i] = c) - 1

RECURSIVE SeqsUpTo(_)
SeqsUpTo(n) ==
    IF n = 0 THEN {<<>>}
    ELSE LET shorter == SeqsUpTo(n - 1)
         IN  shorter \cup {Append(s, c) : s \in shorter, c \in Alphabet}

\* every path segment of at most MaxLen characters, the empty one included
Segments == SeqsUpTo(MaxLen)

(* --------------------- str(int) and int(str) ------------------------- *)

RECURSIVE NatStr(_)
NatStr(n) ==
    IF n < 10 THEN <<Digits[n + 1]>>
    ELSE Append(NatStr(n \div 10), Digits[(n % 10) + 1])

\* str(n) of a Python int: canonical decimal, "-" for negatives
IntStr(n) == IF n < 0 THEN <<"-">> \o NatStr(0 - n) ELSE NatStr(n)

RECURSIVE DigitsValue(_)
DigitsValue(s) ==
    IF Len(s) = 0 THEN 0
    ELSE 10 * DigitsValue(SubSeq(s, 1, Len(s) - 1)) + DigitVal(s[Len(s)])

\* variant: the test for at least one digit is left out
AllDigitsVacuous(s) == \A i \in 1..Len(s) : IsDigit(s[i])

AllDigits(s) == Len(s) > 0 /\ \A i \in 1..Len(s) : IsDigit(s[i])

Unsigned(s) ==
    IF Len(s) > 0 /\ s[1] \in {"+", "-"} THEN SubSeq(s, 2, Len(s)) ELSE s

\* coercion of a path segment to the annotation int: an optional sign and
\* at least one decimal digit, leading zeros allowed; anything else fails
IntParses(s) == AllDigits(Unsigned(s))

\* variant: the sign is dropped
IntCoerceUnsigned(s) == DigitsValue(Unsigned(s))

IntCoerce(s) ==
    IF Len(s) > 0 /\ s[1] = "-" THEN 0 - DigitsValue(Unsigned(s))
    ELSE DigitsValue(Unsigned(s))

(* ---------------------------- the handlers --------------------------- *)

Welcome ==
    <<"W", "e", "l", "c", "o", "m", "e", " ", "t", "o", " ", "t", "h", "e",
      " ", "D", "V", "D", " ", "F", "i", "l", "m", " ", "A", "P", "I">>

\* variant: another welcome text
root_short == [message |-> <<"W", "e", "l", "c", "o", "m", "e">>]

\* async def root()
root == [message |-> Welcome]

\* variant: the closing "!" is left out
greet_plain(name) == [message |-> <<"M", "o", "i", ",", " ">> \o name]

\* async def greet(name)
greet(name) == [message |-> <<"M", "o", "i", ",", " ">> \o name \o <<"!">>]

\* variant: the sum wraps as a signed 8-bit integer
SumWrap8(number1, number2) == ((number1 + number2 + 128) % 256) - 128

\* the sum of the two parameters; Python ints do not wrap
Sum(number1, number2) == number1 + number2

\* variant: the sum is returned in a field of its own
add_numbers_sum_field(number1, number2) ==
    [message |->
        <<"n", "u", "m", "b", "e", "r", "1", "=">> \o IntStr(number1)
        \o <<" ", "+", " ", "n", "u", "m", "b", "e", "r", "2", "=">>
        \o IntStr(number2) \o <<" ", "=", " ">>
        \o IntStr(number1 + number2),
     sum |-> number1 + number2]

\* async def add_numbers(number1: int, number2: int)
add_numbers(number1, number2) ==
    [message |->
        <<"n", "u", "m", "b", "e", "r", "1", "=">> \o IntStr(number1)
        \o <<" ", "+", " ", "n", "u", "m", "b", "e", "r", "2", "=">>
        \o IntStr(number2)
        \o <<" ", "=", " ">> \o IntStr(Sum(number1, number2))]

(* ------------------------------ routing ------------------------------ *)

\* a path parameter {x} matches one non-empty segment
ParamMatches(seg) == Len(seg) > 0

\* the first route, in registration order, whose template the path matches
Match(r) ==
    IF r.prefix = "" /\ Len(r.segs) = 0 THEN "root"
    ELSE IF r.prefix = "greet" /\ Len(r.segs) = 1 /\ ParamMatches(r.segs[1])
         THEN "greet"
    ELSE IF r.prefix = "add" /\ Len(r.segs) = 2
            /\ ParamMatches(r.segs[1]) /\ ParamMatches(r.segs[2])
         THEN "add"
    ELSE "none"

\* the path parameters the matched template binds, as <<name, text>> pairs
PathParams(rt, r) ==
    IF rt = "greet" THEN << <<"name", r.segs[1]>> >>
    ELSE IF rt = "add"
         THEN << <<"number1", r.segs[1]>>, <<"number2", r.segs[2]>> >>
    ELSE <<>>

\* variant: coercion stops at the first field that fails
ValidationErrorsFirst(rt, pp) ==
    IF rt = "add"
    THEN IF ~IntParses(pp[1][2]) THEN <<pp[1][1]>>
         ELSE IF ~IntParses(pp[2][2]) THEN <<pp[2][1]>>
         ELSE <<>>
    ELSE <<>>

\* variant: the parameter of greet is coerced to int as well
ValidationErrorsGreetInt(rt, pp) ==
    IF rt = "add"
    THEN (IF IntParses(pp[1][2]) THEN <<>> ELSE <<pp[1][1]>>)
         \o (IF IntParses(pp[2][2]) THEN <<>> ELSE <<pp[2][1]>>)
    ELSE IF rt = "greet"
         THEN (IF IntParses(pp[1][2]) THEN <<>> ELSE <<pp[1][1]>>)
    ELSE <<>>

\* the fields of the handler's signature that fail coercion, in order:
\* only add_numbers annotates its parameters (int, int)
ValidationErrors(rt, pp) ==
    IF rt = "add"
    THEN (IF IntParses(pp[1][2]) THEN <<>> ELSE <<pp[1][1]>>)
         \o (IF IntParses(pp[2][2]) THEN <<>> ELSE <<pp[2][1]>>)
    ELSE <<>>

NoArgs == [name |-> <<>>, number1 |-> 0, number2 |-> 0]

\* the keyword arguments the handler is called with
Arguments(rt, pp) ==
    IF rt = "greet" THEN [NoArgs EXCEPT !.name = pp[1][2]]
    ELSE IF rt = "add"
         THEN [NoArgs EXCEPT !.number1 = IntCoerce(pp[1][2]),
                             !.number2 = IntCoerce(pp[2][2])]
    ELSE NoArgs

\* the handler body of the matched route, applied to its arguments
Endpoint(rt, kw) ==
    IF rt = "root" THEN root
    ELSE IF rt = "greet" THEN greet(kw.name)
    ELSE add_numbers(kw.number1, kw.number2)

(* ------------------------------ requests ----------------------------- *)

NoRequest == [prefix |-> "-", segs |-> <<>>]

NoResponse == [status |-> 0, body |-> [detail |-> <<>>]]

NotFound == [status |-> 404,
             body |-> [detail |-> <<"N", "o", "t", " ", "F", "o", "u", "n", "d">>]]

\* every request of the sequential specification: the three templates
\* instantiated with every segment, and paths that match no template
Requests ==
    {[prefix |-> "", segs |-> <<>>], [prefix |-> "films", segs |-> <<>>],
     [prefix |-> "greet", segs |-> <<>>], [prefix |-> "add", segs |-> <<>>]}
    \cup {[prefix |-> p, segs |-> <<s>>] : p \in {"greet", "add"}, s \in Segments}
    \cup {[prefix |-> "add", segs |-> <<s1, s2>>] : s1 \in Segments, s2 \in Segments}

(* ------------------------------ actions ------------------------------ *)

Init ==
    /\ pc = [t \in Tasks |-> "idle"]
    /\ request = [t \in Tasks |-> NoRequest]
    /\ route = [t \in Tasks |-> "none"]
    /\ path_params = [t \in Tasks |-> <<>>]
    /\ kwargs = [t \in Tasks |-> NoArgs]
    /\ response = [t \in Tasks |-> NoResponse]
    /\ called = [t \in Tasks |-> "none"]

\* the server hands a request, any one of rs, to a new task
Receive(t, rs) ==
    /\ pc[t] = "idle"
    /\ pc' = [pc EXCEPT ![t] = "received"]
    /\ \E r \in rs : request' = [request EXCEPT ![t] = r]
    /\ UNCHANGED <<route, path_params, kwargs, response, called>>

\* the router finds the route of the path and binds its path parameters
Dispatch(t) ==
    /\ pc[t] = "received"
    /\ Match(request[t]) # "none"
    /\ route' = [route EXCEPT ![t] = Match(request[t])]
    /\ path_params' =
          [path_params EXCEPT ![t] = PathParams(Match(request[t]), request[t])]
    /\ pc' = [pc EXCEPT ![t] = "matched"]
    /\ UNCHANGED <<request, kwargs, response, called>>

\* no route matches: the router's default answer
RouteNotFound(t) ==
    /\ pc[t] = "received"
    /\ Match(request[t]) = "none"
    /\ response' = [response EXCEPT ![t] = NotFound]
    /\ pc' = [pc EXCEPT ![t] = "done"]
    /\ UNCHANGED <<request, route, path_params, kwargs, called>>

\* the path parameters coerce to the handler's signature
Bind(t) ==
    /\ pc[t] = "matched"
    /\ ValidationErrors(route[t], path_params[t]) = <<>>
    /\ kwargs' = [kwargs EXCEPT ![t] = Arguments(route[t], path_params[t])]
    /\ pc' = [pc EXCEPT ![t] = "bound"]
    /\ UNCHANGED <<request, route, path_params, response, called>>

\* a path parameter fails coercion: 422 naming the failing fields
RequestValidationError(t) ==
    /\ pc[t] = "matched"
    /\ ValidationErrors(route[t], path_params[t]) # <<>>
    /\ response' = [response EXCEPT ![t] =
          [status |-> 422,
           body |-> [detail |-> ValidationErrors(route[t], path_params[t])]]]
    /\ pc' = [pc EXCEPT ![t] = "done"]
    /\ UNCHANGED <<request, route, path_params, kwargs, called>>

\* variant: the parameters are kept in one place shared by all calls
SharedLocals(t) == kwargs[1]

\* the parameters of the handler's own call: each call has its own frame
Locals(t) == kwargs[t]

\* the handler body runs and its return value becomes the 200 response
Call(t) ==
    /\ pc[t] = "bound"
    /\ called' = [called EXCEPT ![t] = route[t]]
    /\ response' = [response EXCEPT ![t] =
          [status |-> 200, body |-> Endpoint(route[t], Locals(t))]]
    /\ pc' = [pc EXCEPT ![t] = "done"]
    /\ UNCHANGED <<request, route, path_params, kwargs>>

\* the response is sent and the task ends
Send(t) ==
    /\ pc[t] = "done"
    /\ pc' = [pc EXCEPT ![t] = "idle"]
    /\ request' = [request EXCEPT ![t] = NoRequest]
    /\ route' = [route EXCEPT ![t] = "none"]
    /\ path_params' = [path_params EXCEPT ![t] = <<>>]
    /\ kwargs' = [kwargs EXCEPT ![t] = NoArgs]
    /\ response' = [response EXCEPT ![t] = NoResponse]
    /\ called' = [called EXCEPT ![t] = "none"]

\* one request after another, each handled to completion
Next ==
    \/ Receive(1, Requests)
    \/ Dispatch(1)
    \/ RouteNotFound(1)
    \/ Bind(1)
    \/ RequestValidationError(1)
    \/ Call(1)
    \/ Send(1)

Spec == Init /\ [][Next]_vars

\* the requests of the concurrent specification: every outcome of every
\* route, and two spellings of the same pair of integers
ConcRequests ==
    {[prefix |-> "", segs |-> <<>>],
     [prefix |-> "greet", segs |-> << <<"x">> >>],
     [prefix |-> "greet", segs |-> << <<>> >>],
     [prefix |-> "add", segs |-> << <<"9">>, <<"-", "9", "0">> >>],
     [prefix |-> "add", segs |-> << <<"+", "0", "9">>, <<"-", "9", "0">> >>],
     [prefix |-> "add", segs |-> << <<"9">>, <<"9">> >>],
     [prefix |-> "add", segs |-> << <<"x">>, <<"9">> >>]}

\* one task per request, the steps of the tasks interleaved in any order
NextConc ==
    \E t \in Tasks :
        \/ Receive(t, ConcRequests)
        \/ Dispatch(t)
        \/ RouteNotFound(t)
        \/ Bind(t)
        \/ RequestValidationError(t)
        \/ Call(t)
        \/ Send(t)

SpecConc == Init /\ [][NextConc]_vars

(* ------------------- notions the properties are stated in ------------ *)

Done(t) == pc[t] = "done"

RECURSIVE Pow10(_)
Pow10(k) == IF k = 0 THEN 1 ELSE 10 * Pow10(k - 1)

\* the integers a segment of at most MaxLen characters can spell
MaxVal == Pow10(MaxLen) - 1

IntRange == (0 - MaxVal)..MaxVal

Abs(n) == IF n < 0 THEN 0 - n ELSE n

Zeros(k) == [i \in 1..k |-> "0"]

Signs(n) ==
    IF n < 0 THEN {<<"-">>}
    ELSE IF n = 0 THEN {<<>>, <<"+">>, <<"-">>}
    ELSE {<<>>, <<"+">>}

\* the decimal spellings of the integer n: the canonical digits of |n|,
\* any number of leading zeros, and a sign
Spellings(n) ==
    {sg \o Zeros(k) \o NatStr(Abs(n)) : sg \in Signs(n), k \in 0..MaxLen}

\* <<segment, integer>> for every segment that spells an integer
SpellingPairs ==
    UNION {{<<s, n>> : s \in Spellings(n) \cap Segments} : n \in IntRange}

\* the segments that are integers
IntegerTexts == {p[1] : p \in SpellingPairs}

\* the integer the segment s spells
Meaning(s) == (CHOOSE p \in SpellingPairs : p[1] = s)[2]

\* the canonical decimal of an integer, as the claims' <a>, <b>, <a+b>
Canonical(s) == s \in IntegerTexts /\ s = IntStr(Meaning(s))

\* the message "number1=<a> + number2=<b> = <c>"
AddMessage(a, b, c) ==
    <<"n", "u", "m", "b", "e", "r", "1", "=">> \o a
    \o <<" ", "+", " ", "n", "u", "m", "b", "e", "r", "2", "=">> \o b
    \o <<" ", "=", " ">> \o c

IsAdd(r) == r.prefix = "add" /\ Len(r.segs) = 2

IsGreet(r) == r.prefix = "greet" /\ Len(r.segs) = 1

IsRoot(r) == r.prefix = "" /\ Len(r.segs) = 0

\* the request instantiates one of the three templates with segments the
\* router binds: a path parameter is never empty
ReachesEndpoint(r) ==
    \/ IsRoot(r)
    \/ IsGreet(r) /\ r.segs[1] # <<>>
    \/ IsAdd(r) /\ r.segs[1] # <<>> /\ r.segs[2] # <<>>

NotInteger(r) == r.segs[1] \notin IntegerTexts \/ r.segs[2] \notin IntegerTexts

IsText(m) == m \in Seq(Alphabet \cup {Digits[i] : i \in 1..10}
                       \cup {"n", "u", "m", "b", "e", "r", "=", " ", "M", "o",
                             "i", ",", "!", "W", "l", "c", "t", "h", "D", "V",
                             "F", "A", "P", "I"})

Reported(t) == {response[t].body.detail[i] : i \in 1..Len(response[t].body.detail)}

\* the response to r when it is the only request the server handles
Alone(r) ==
    LET rt == Match(r)
        pp == PathParams(rt, r)
        errs == ValidationErrors(rt, pp)
    IN  IF rt = "none" THEN NotFound
        ELSE IF errs # <<>> THEN [status |-> 422, body |-> [detail |-> errs]]
        ELSE [status |-> 200, body |-> Endpoint(rt, Arguments(rt, pp))]

(* ------------------------------ properties --------------------------- *)

\* C1: GET /add/<a>/<b> with a and b written in canonical decimal
\* (negative and zero included) is answered 200 with the message
\* "number1=<a> + number2=<b> = <a+b>", a+b the integer sum.
C1_AddReturnsSum ==
    \A t \in Tasks :
        (Done(t) /\ IsAdd(request[t])
         /\ Canonical(request[t].segs[1]) /\ Canonical(request[t].segs[2]))
        => /\ response[t].status = 200
           /\ response[t].body =
                [message |->
                    AddMessage(request[t].segs[1], request[t].segs[2],
                               IntStr(Meaning(request[t].segs[1])
                                      + Meaning(request[t].segs[2])))]

C1_Witness ==
    \E t \in Tasks :
        /\ Done(t) /\ called[t] = "add"
        /\ request[t] = [prefix |-> "add", segs |-> << <<"-", "9">>, <<"0">> >>]
        /\ response[t].status = 200

\* C2 as stated: every request /add/<s1>/<s2> in which s1 or s2 is not an
\* integer is answered 422, and its handler body never runs.
C2_Original ==
    \A t \in Tasks :
        (IsAdd(request[t]) /\ NotInteger(request[t]))
        => /\ called[t] = "none"
           /\ Done(t) => response[t].status = 422

\* C2 amended: every request /add/<s1>/<s2> with both segments non-empty in
\* which s1 or s2 is not an integer is answered 422, and its handler body
\* never runs; with an empty segment the path matches no route (404).
C2_NonIntegerIs422 ==
    \A t \in Tasks :
        (IsAdd(request[t]) /\ NotInteger(request[t]))
        => /\ called[t] = "none"
           /\ Done(t) =>
                response[t].status =
                    IF ReachesEndpoint(request[t]) THEN 422 ELSE 404

C2_Witness ==
    \E t \in Tasks :
        /\ Done(t) /\ called[t] = "none"
        /\ request[t] = [prefix |-> "add", segs |-> << <<"9">>, <<"x">> >>]
        /\ response[t].status = 422

\* C3 as stated: for every string s, GET /greet/<s> is answered 200 with
\* the body {"message": "Moi, <s>!"}.
C3_Original ==
    \A t \in Tasks :
        (Done(t) /\ IsGreet(request[t]))
        => /\ response[t].status = 200
           /\ response[t].body =
                [message |-> <<"M", "o", "i", ",", " ">>
                             \o request[t].segs[1] \o <<"!">>]

\* C3 amended: for every non-empty string s (one path segment), GET
\* /greet/<s> is answered 200 with the body {"message": "Moi, <s>!"}, s
\* unmodified; the empty string matches no route and is answered 404.
C3_GreetNonEmpty ==
    \A t \in Tasks :
        (Done(t) /\ IsGreet(request[t]))
        => IF request[t].segs[1] # <<>>
           THEN /\ response[t].status = 200
                /\ response[t].body =
                     [message |-> <<"M", "o", "i", ",", " ">>
                                  \o request[t].segs[1] \o <<"!">>]
           ELSE response[t].status = 404

C3_Witness ==
    \E t \in Tasks :
        /\ Done(t) /\ called[t] = "greet"
        /\ request[t] = [prefix |-> "greet", segs |-> << <<"x", "9">> >>]
        /\ response[t].body =
             [message |-> <<"M", "o", "i", ",", " ", "x", "9", "!">>]

\* C4: GET / is answered 200 with exactly the body
\* {"message": "Welcome to the DVD Film API"}, after any earlier requests.
C4_RootWelcome ==
    \A t \in Tasks :
        (Done(t) /\ IsRoot(request[t]))
        => /\ response[t].status = 200
           /\ DOMAIN response[t].body = {"message"}
           /\ response[t].body.message =
                <<"W", "e", "l", "c", "o", "m", "e", " ", "t", "o", " ", "t",
                  "h", "e", " ", "D", "V", "D", " ", "F", "i", "l", "m", " ",
                  "A", "P", "I">>

C4_Witness ==
    \E t \in Tasks :
        Done(t) /\ IsRoot(request[t]) /\ called[t] = "root"
        /\ response[t].status = 200

\* C5: a request repeated with identical inputs gets an identical response
\* (status and body), whatever other requests were handled before or
\* between: any two finished requests with the same path agree.
C5_Idempotent ==
    \A t \in Tasks : \A u \in Tasks :
        (Done(t) /\ Done(u) /\ request[t] = request[u])
        => response[t] = response[u]

C5_Witness ==
    \E t \in Tasks : \E u \in Tasks :
        /\ t # u /\ Done(t) /\ Done(u)
        /\ request[t] = request[u]
        /\ IsAdd(request[t]) /\ response[t].status = 200

C7_Isolated ==
    \A t \in Tasks : Done(t) => response[t] = Alone(request[t])

C7_Witness ==
    \E t \in Tasks : \E u \in Tasks :
        /\ t # u /\ Done(t) /\ pc[u] = "bound"
        /\ IsAdd(request[t]) /\ IsAdd(request[u]) /\ request[t] # request[u]
        /\ response[t].status = 200

\* C8: every 200 response is a mapping with the single key message whose
\* value is a string; the sum of /add is delivered at the end of that
\* string and in no other field.
C8_SingleMessageKey ==
    \A t \in Tasks :
        (Done(t) /\ response[t].status = 200)
        => /\ DOMAIN response[t].body = {"message"}
           /\ IsText(response[t].body.message)
           /\ IsAdd(request[t]) =>
                LET m == response[t].body.message
                    c == IntStr(Meaning(request[t].segs[1])
                                + Meaning(request[t].segs[2]))
                IN  /\ Len(m) > Len(c)
                    /\ SubSeq(m, Len(m) - Len(c) + 1, Len(m)) = c

C8_Witness ==
    \E t \in Tasks :
        /\ Done(t) /\ response[t].status = 200
        /\ request[t] = [prefix |-> "add", segs |-> << <<"9">>, <<"9">> >>]
        /\ DOMAIN response[t].body = {"message"}

\* C9: a 422 response of /add names number1 exactly when the first segment
\* is not an integer and number2 exactly when the second is not.
C9_ReportsOffendingField ==
    \A t \in Tasks :
        (Done(t) /\ response[t].status = 422)
        => /\ IsAdd(request[t])
           /\ Reported(t) \subseteq {"number1", "number2"}
           /\ "number1" \in Reported(t) <=> request[t].segs[1] \notin IntegerTexts
           /\ "number2" \in Reported(t) <=> request[t].segs[2] \notin IntegerTexts

C9_Witness ==
    \E t \in Tasks :
        /\ Done(t) /\ response[t].status = 422
        /\ request[t] = [prefix |-> "add", segs |-> << <<"x">>, <<"-">> >>]
        /\ Reported(t) = {"number1", "number2"}

\* C10: the message of /add shows the integers the segments spell, in
\* canonical decimal, whatever their spelling (sign +, leading zeros), and
\* the exact integer sum.
C10_CanonicalExactSum ==
    \A t \in Tasks :
        (Done(t) /\ response[t].status = 200 /\ IsAdd(request[t]))
        => /\ ~NotInteger(request[t])
           /\ response[t].body.message =
                AddMessage(IntStr(Meaning(request[t].segs[1])),
                           IntStr(Meaning(request[t].segs[2])),
                           IntStr(Meaning(request[t].segs[1])
                                  + Meaning(request[t].segs[2])))

C10_Witness ==
    \E t \in Tasks :
        /\ Done(t)
        /\ request[t] = [prefix |-> "add", segs |-> << <<"+", "9">>, <<"0", "9">> >>]
        /\ response[t].body.message =
             <<"n", "u", "m", "b", "e", "r", "1", "=", "9", " ", "+", " ",
               "n", "u", "m", "b", "e", "r", "2", "=", "9", " ", "=", " ",
               "1", "8">>

====
